---- MODULE Spec2Model ----
(***************************************************************************)
(* A model of the Cost-tracking backend: the WeChat QR-login handshake     *)
(* (src/utils/wechat.py, src/router/auth.py), JWT issuance and             *)
(* verification (src/auth/jwt_utils.py, src/auth/dependencies.py) and the   *)
(* item handlers (src/router/items.py, src/utils/datetime_utils.py).        *)
(*                                                                         *)
(* Units.  `now` counts minutes since the process started.  A date is a    *)
(* day number, day 0 being 2023-01-01; the process starts at 00:00 of      *)
(* StartDay.  Money the client sends is in thousandths (0.001), a stored   *)
(* purchase_amount is in cents (DECIMAL(10, 2)) and a daily cost is in     *)
(* ten-thousandths (DECIMAL(10, 4)).                                       *)
(*                                                                         *)
(* An action is one handler run from the request to the response, with     *)
(* everything it commits.  The item handlers are modelled from the point   *)
(* where FastAPI has resolved Depends(get_current_user): they take the     *)
(* user row that dependency returns.                                       *)
(*                                                                         *)
(* Specifications.  Spec: the login routes.  SpecItems: the item and       *)
(* statistics routes, with the callback that creates users.  SpecSession   *)
(* and SpecCost: direct calls of update_session_status and of              *)
(* calculate_daily_cost.                                                   *)
(***************************************************************************)
EXTENDS Integers, Sequences, FiniteSets, TLC

VARIABLES
    now,        \* datetime.now(), in minutes since the process started
    redis,      \* the wechat_session:* keys: session id -> [value, expire_at]
    nextUuid,   \* uuid.uuid4(): the next unused identifier
    users,      \* table users: id -> row
    items,      \* table items: id -> row
    probe,      \* a direct call of a function: its arguments and result
    token_cache \* the wechat_access_token key: None or [value, expire_at]

vars == <<now, redis, nextUuid, users, items, probe, token_cache>>

----------------------------------------------------------------------------
(* Bounds of the model *)

MaxMinute == 6
MaxDay == 1
MaxSessions == 1
MaxItems == 2

----------------------------------------------------------------------------
(* Values *)

\* Python's None.  A record, so that it compares (unequal) with every record.
None == [none |-> TRUE]

Max(a, b) == IF a >= b THEN a ELSE b

Abs(a) == IF a >= 0 THEN a ELSE -a

MinutesPerDay == 24 * 60

\* self.session_expire_minutes
session_expire_minutes == 5

ACCESS_TOKEN_EXPIRE_MINUTES == 30 * 24 * 60

REFRESH_TOKEN_EXPIRE_MINUTES == 7 * 24 * 60

\* The openids the provider may report.
Openids == {"o1", "o2", "o3"}

\* The identifiers a client may send as session_id or as state: 0 is a
\* string that was never generated, the others are uuid4 values.
UuidInputs == 0 .. (2 * MaxSessions)

----------------------------------------------------------------------------
(* src/utils/response.py *)

success_response(data, message, code) ==
    [success |-> TRUE, message |-> message, data |-> data, code |-> code]

\* error_response(message, error_code=None, data=None, code=400)
error_response(message, error_code, data, code) ==
    [success |-> FALSE, message |-> message, error_code |-> error_code,
     data |-> data, code |-> code]

\* A handler that returns a dict is answered with HTTP 200.
Http200(body) == [http |-> 200, body |-> body]

\* main.py http_exception_handler: the body of a raised HTTPException.
HttpException(status_code, detail) ==
    [http |-> status_code,
     body |-> [success |-> FALSE, message |-> detail, code |-> status_code]]

\* FastAPI's answer to a request whose body or parameters fail validation.
RequestValidationError == [http |-> 422, body |-> [detail |-> "validation error"]]

\* The request was answered with a success body.
Succeeded(response) == response.http = 200 /\ response.body.success

----------------------------------------------------------------------------
(* The cache: redis.client.get / setex on the wechat_session:* keys *)

\* GET: an expired key is gone.
RedisGet(key) ==
    IF key \in DOMAIN redis /\ now < redis[key].expire_at
    THEN redis[key].value
    ELSE None

\* SETEX key ttl value (ttl in minutes here)
RedisSetex(r, key, ttl, value) ==
    [k \in (DOMAIN r) \cup {key} |->
        IF k = key THEN [value |-> value, expire_at |-> now + ttl] ELSE r[k]]

\* The keys whose TTL has not run out at time t.
RedisLive(r, t) == [k \in {j \in DOMAIN r : t < r[j].expire_at} |-> r[k]]

----------------------------------------------------------------------------
(* src/utils/wechat.py *)

StatusMessages ==
    [pending |-> "waiting for scan", scanned |-> "scanned, waiting for confirm",
     confirmed |-> "confirmed", success |-> "login success",
     failed |-> "login failed", cancelled |-> "cancelled"]

_get_status_message(status) ==
    IF status \in DOMAIN StatusMessages THEN StatusMessages[status]
    ELSE "unknown status"

\* get_session_status: the dict it returns.
get_session_status(session_id) ==
    LET data == RedisGet(session_id) IN
    IF data = None
    THEN [status |-> "expired", message |-> "session expired"]
    ELSE IF now > data.expires_at
    THEN [status |-> "expired", message |-> "session expired"]
    ELSE [status |-> data.status, message |-> _get_status_message(data.status),
          user_info |-> data.user_info, token |-> data.token]

\* A variant that also moves expires_at to the end of the fresh TTL.
update_session_status_rearm(session_id, status, user_info, token) ==
    LET data == RedisGet(session_id) IN
    IF data = None
    THEN redis
    ELSE RedisSetex(redis, session_id, session_expire_minutes,
                    [data EXCEPT !.status = status, !.user_info = user_info,
                                 !.token = token,
                                 !.expires_at = now + session_expire_minutes])

\* update_session_status: the cache it leaves (unchanged when it returns False).
\* It rewrites the whole record with a fresh TTL and keeps every field it is
\* not given.
update_session_status(session_id, status, user_info, token) ==
    LET data == RedisGet(session_id) IN
    IF data = None
    THEN redis
    ELSE RedisSetex(redis, session_id, session_expire_minutes,
                    [data EXCEPT !.status = status, !.user_info = user_info,
                                 !.token = token])

----------------------------------------------------------------------------
(* src/auth/jwt_utils.py *)

\* A JSON number and a JSON string are different values of a claim.
IntVal(n) == [int |-> n]

StrVal(n) == [str |-> n]

IsStr(v) == "str" \in DOMAIN v

\* The number a claim value stands for when it is compared with an INTEGER
\* column.
NumberOf(v) == IF IsStr(v) THEN v.str ELSE v.int

\* jose.jwt.encode: the claims signed with a key.
jwt_encode(to_encode, key) == [claims |-> to_encode, key |-> key]

\* jose.jwt.decode(token, self.secret_key, algorithms=[...]): the claims, or
\* None where it raises a JWTError: a signature made with another key, an exp
\* in the past (ExpiredSignatureError), or a sub that is not a string
\* (JWTClaimsError "Subject must be a string.").
jwt_decode(token, key) ==
    IF token.key # key THEN None
    ELSE IF token.claims.exp < now THEN None
    ELSE IF "sub" \in DOMAIN token.claims /\ ~IsStr(token.claims.sub) THEN None
    ELSE token.claims

\* utcnow is datetime.utcnow() at the call.
create_access_token(data, utcnow) ==
    jwt_encode([sub |-> data.sub, openid |-> data.openid,
                exp |-> utcnow + ACCESS_TOKEN_EXPIRE_MINUTES, type |-> "access"],
               "SECRET_KEY")

create_refresh_token(data, utcnow) ==
    jwt_encode([sub |-> data.sub,
                exp |-> utcnow + REFRESH_TOKEN_EXPIRE_MINUTES, type |-> "refresh"],
               "SECRET_KEY")

verify_token(token) == jwt_decode(token, "SECRET_KEY")

is_access_token(token) ==
    LET payload == verify_token(token) IN
    IF payload # None THEN payload.type = "access" ELSE FALSE

is_refresh_token(token) ==
    LET payload == verify_token(token) IN
    IF payload # None THEN payload.type = "refresh" ELSE FALSE

\* The "sub" claim generate_token_pair writes: the integer user id.
SubClaim(user_id) == IntVal(user_id)

generate_token_pair(user_id, user_info, utcnow) ==
    [access_token |-> create_access_token(
                          [sub |-> SubClaim(user_id), openid |-> user_info.openid],
                          utcnow),
     refresh_token |-> create_refresh_token([sub |-> SubClaim(user_id)], utcnow),
     token_type |-> "bearer"]

----------------------------------------------------------------------------
(* The users table and src/auth/dependencies.py *)

\* select(User).where(User.id == user_id, User.is_delete == False)
\*     .scalar_one_or_none()
SelectUserById(user_id) ==
    LET found == {u \in DOMAIN users :
                    users[u].id = NumberOf(user_id) /\ ~users[u].is_delete} IN
    IF found = {} THEN None ELSE users[CHOOSE u \in found : TRUE]

\* select(User).where(User.openid == openid, User.is_delete == False)
\*     .scalar_one_or_none()
SelectUserByOpenid(openid) ==
    LET found == {u \in DOMAIN users :
                    users[u].openid = openid /\ ~users[u].is_delete} IN
    IF found = {} THEN None ELSE users[CHOOSE u \in found : TRUE]

\* get_current_user(credentials): [user |-> row], or [raised |-> response] for
\* the HTTPException it raises.  credentials is None without a bearer header.
get_current_user(credentials) ==
    IF credentials = None
    THEN [raised |-> HttpException(401, "no token")]
    ELSE LET payload == verify_token(credentials) IN
    IF payload = None
    THEN [raised |-> HttpException(401, "invalid token")]
    ELSE IF ~is_access_token(credentials)
    THEN [raised |-> HttpException(401, "invalid token type")]
    ELSE IF "sub" \notin DOMAIN payload \/ NumberOf(payload.sub) = 0
    THEN [raised |-> HttpException(401, "no user in token")]
    ELSE LET user == SelectUserById(payload.sub) IN
    IF user = None
    THEN [raised |-> HttpException(401, "user not found")]
    ELSE [user |-> user]

Authenticated(auth) == "user" \in DOMAIN auth

\* get_current_user's lookup without the is_delete condition.
CurrentUsers_with_deleted == {users[u] : u \in DOMAIN users}

\* The rows get_current_user's lookup hands to a handler.
CurrentUsers ==
    {users[u] : u \in {v \in DOMAIN users : SelectUserById(IntVal(v)) # None}}

----------------------------------------------------------------------------
(* The state the process starts in.  The database file outlives the        *)
(* process (src/db/database.py creates the missing tables only), so the    *)
(* users table starts with rows of earlier runs: one user and one row an   *)
(* administrator has soft-deleted.  No items and no cache keys exist yet.  *)

StoredUsers ==
    [u \in 1 .. 2 |->
        [id |-> u,
         openid |-> IF u = 1 THEN "o1" ELSE "o2",
         is_delete |-> (u = 2)]]

Init ==
    /\ now = 0
    /\ redis = << >>
    /\ nextUuid = 1
    /\ users = StoredUsers
    /\ items = << >>
    /\ probe = None
    /\ token_cache = None

\* The tokens a client can hold: a pair issued to a stored user before the
\* process started (row 2's before it was soft-deleted), a pair any user of
\* the table gets by logging in now, and a token signed with another key.
ForgedToken ==
    jwt_encode([sub |-> StrVal(1), exp |-> ACCESS_TOKEN_EXPIRE_MINUTES,
                type |-> "access"], "other key")

TokensOf(token_pair) == {token_pair.access_token, token_pair.refresh_token}

TokenInputs ==
    {ForgedToken}
    \cup UNION {TokensOf(generate_token_pair(u, [openid |-> StoredUsers[u].openid], 0)) :
                    u \in DOMAIN StoredUsers}
    \cup UNION {TokensOf(generate_token_pair(r.id, [openid |-> r.openid], now)) :
                    r \in CurrentUsers}

----------------------------------------------------------------------------
(* src/router/auth.py *)

\* generate_qrcode_url: the record it stores for a new session.
NewSessionData(session_id, state) ==
    [session_id |-> session_id, state |-> state, status |-> "pending",
     created_at |-> now, expires_at |-> now + session_expire_minutes,
     user_info |-> None, token |-> None]

\* GET /api/auth/wechat/qr.  The QR image encodes the authorization URL,
\* which carries the state.
get_wechat_qrcode_response(session_id, state) ==
    Http200(success_response(
        [session_id |-> session_id, qr_code |-> [state |-> state],
         expires_at |-> NewSessionData(session_id, state).expires_at],
        "qr code", 200))

get_wechat_qrcode ==
    /\ nextUuid + 1 <= 2 * MaxSessions
    /\ LET session_id == nextUuid
           state == nextUuid + 1
       IN /\ get_wechat_qrcode_response(session_id, state).body.success
          /\ redis' = RedisSetex(redis, session_id, session_expire_minutes,
                                 NewSessionData(session_id, state))
    /\ nextUuid' = nextUuid + 2
    /\ UNCHANGED <<now, users, items, probe, token_cache>>

\* GET /api/auth/wechat/status/{session_id}
get_wechat_login_status_response(session_id) ==
    Http200(success_response(get_session_status(session_id), "status", 200))

get_wechat_login_status ==
    \E session_id \in UuidInputs :
        /\ get_wechat_login_status_response(session_id).body.success
        /\ UNCHANGED vars

\* db.add(user); commit; refresh: the table with the new row, whose id is the
\* next autoincrement value.
InsertUser(openid) ==
    Append(users, [id |-> Len(users) + 1, openid |-> openid, is_delete |-> FALSE])

\* users.openid is UNIQUE: where the lookup finds no live row and a row with
\* the openid exists, the insert raises and `except Exception` answers.
CallbackConflict(user_data) ==
    /\ SelectUserByOpenid(user_data.openid) = None
    /\ \E u \in DOMAIN users : users[u].openid = user_data.openid

\* The users table after wechat_callback's "find or create".
CallbackUsers(user_data) ==
    IF SelectUserByOpenid(user_data.openid) = None
    THEN InsertUser(user_data.openid)
    ELSE users

\* The user wechat_callback logs in.
CallbackUser(user_data) ==
    IF SelectUserByOpenid(user_data.openid) = None
    THEN LET table == InsertUser(user_data.openid) IN table[Len(table)]
    ELSE SelectUserByOpenid(user_data.openid)

\* The session key wechat_callback updates: the state it was sent.
CallbackSessionId(state) == state

\* The status wechat_callback stores.
CallbackStatus == "success"

\* What the provider may answer through get_user_info_by_code: None (an
\* error code, or any exception), or the user's data.
\* How the two outbound calls made for an authorization code end: the
\* provider answers with an errcode, a call fails with a request or network
\* error, or the user's data arrives.
CodeOutcomes ==
    {[kind |-> "errcode"], [kind |-> "request_error"]}
        \cup {[kind |-> "user", openid |-> o] : o \in Openids}

\* wechat.py get_user_info_by_code: an errcode returns None, and so does
\* every exception raised inside the try block.
get_user_info_by_code(outcome) ==
    IF outcome.kind = "user" THEN [openid |-> outcome.openid] ELSE None

UserDataInputs == {get_user_info_by_code(outcome) : outcome \in CodeOutcomes}

\* A variant that lets a failed authorization fall through to the generic
\* error of the handler.
wechat_callback_response_generic(state, user_data) ==
    IF user_data = None \/ CallbackConflict(user_data)
    THEN Http200(error_response("callback failed", "CALLBACK_PROCESS_ERROR",
                                None, 400))
    ELSE LET user == CallbackUser(user_data) IN
         Http200(success_response(
             generate_token_pair(user.id, [openid |-> user.openid], now),
             "login success", 200))

\* POST /api/auth/wechat/callback
wechat_callback_response(state, user_data) ==
    IF user_data = None
    THEN Http200(error_response("wechat auth failed", "WECHAT_AUTH_ERROR",
                                None, 400))
    ELSE IF CallbackConflict(user_data)
    THEN Http200(error_response("callback failed", "CALLBACK_PROCESS_ERROR",
                                None, 400))
    ELSE LET user == CallbackUser(user_data) IN
         Http200(success_response(
             generate_token_pair(user.id, [openid |-> user.openid], now),
             "login success", 200))

wechat_callback_do(state, user_data) ==
    /\ IF user_data = None \/ CallbackConflict(user_data)
       THEN UNCHANGED <<users, redis>>
       ELSE LET user == CallbackUser(user_data)
                token_pair == generate_token_pair(user.id,
                                                  [openid |-> user.openid], now)
            IN /\ users' = CallbackUsers(user_data)
               /\ redis' = update_session_status(
                               CallbackSessionId(state), CallbackStatus,
                               [openid |-> user.openid], token_pair.access_token)
    /\ UNCHANGED <<now, nextUuid, items, probe, token_cache>>

wechat_callback ==
    \E state \in UuidInputs, user_data \in UserDataInputs :
        wechat_callback_do(state, user_data)

\* POST /api/auth/refresh
refresh_token_response(token) ==
    LET payload == verify_token(token) IN
    IF payload = None
    THEN Http200(error_response("invalid refresh token", "INVALID_REFRESH_TOKEN",
                                None, 400))
    ELSE IF ~is_refresh_token(token)
    THEN Http200(error_response("wrong token type", "WRONG_TOKEN_TYPE", None, 400))
    ELSE IF "sub" \notin DOMAIN payload \/ NumberOf(payload.sub) = 0
    THEN Http200(error_response("no user in token", "MISSING_USER_INFO", None, 400))
    ELSE LET user == SelectUserById(payload.sub) IN
    IF user = None
    THEN Http200(error_response("user not found", "USER_NOT_FOUND", None, 400))
    ELSE Http200(success_response(
             generate_token_pair(user.id, [openid |-> user.openid], now),
             "token refreshed", 200))

refresh_token ==
    \E token \in TokenInputs :
        /\ refresh_token_response(token).http = 200
        /\ UNCHANGED vars

\* POST /api/auth/logout
logout_response(credentials) ==
    LET auth == get_current_user(credentials) IN
    IF Authenticated(auth)
    THEN Http200(success_response(None, "logged out", 200))
    ELSE auth.raised

logout ==
    \E credentials \in TokenInputs \cup {None} :
        /\ logout_response(credentials).http \in {200, 401}
        /\ UNCHANGED vars

\* GET /api/auth/me
get_current_user_info_response(credentials) ==
    LET auth == get_current_user(credentials) IN
    IF Authenticated(auth)
    THEN Http200(success_response(
             [id |-> auth.user.id, openid |-> auth.user.openid], "user info", 200))
    ELSE auth.raised

get_current_user_info ==
    \E credentials \in TokenInputs \cup {None} :
        /\ get_current_user_info_response(credentials).http \in {200, 401}
        /\ UNCHANGED vars

\* A minute passes; the keys whose TTL has run out are gone.
TickMinute ==
    /\ now < MaxMinute
    /\ now' = now + 1
    /\ redis' = RedisLive(redis, now + 1)
    /\ UNCHANGED <<nextUuid, users, items, probe, token_cache>>

Next ==
    \/ get_wechat_qrcode
    \/ get_wechat_login_status
    \/ wechat_callback
    \/ refresh_token
    \/ logout
    \/ get_current_user_info
    \/ TickMinute

Spec == Init /\ [][Next]_vars

----------------------------------------------------------------------------
(* Direct calls of WechatLoginService.update_session_status *)

\* The statuses a caller may pass: those of the status table and one that
\* the table does not know.
StatusInputs ==
    {"pending", "scanned", "confirmed", "success", "failed", "cancelled", "unknown"}

\* update_session_status(session_id, status) without keyword arguments:
\* data.update(kwargs) leaves the other fields as they are.
update_session_status_call ==
    \E session_id \in UuidInputs, status \in StatusInputs :
        LET data == RedisGet(session_id) IN
        /\ redis' = IF data = None THEN redis
                     ELSE update_session_status(session_id, status, data.user_info,
                                                data.token)
        /\ UNCHANGED <<now, nextUuid, users, items, probe, token_cache>>

NextSession ==
    \/ get_wechat_qrcode
    \/ get_wechat_login_status
    \/ update_session_status_call
    \/ TickMinute

SpecSession == Init /\ [][NextSession]_vars

----------------------------------------------------------------------------
(* Dates: src/utils/datetime_utils.py *)

\* The lengths of the months 2023-01 .. 2024-12.
MonthLengths ==
    <<31, 28, 31, 30, 31, 30, 31, 31, 30, 31, 30, 31,
      31, 29, 31, 30, 31, 30, 31, 31, 30, 31, 30, 31>>

\* The day number of the first day of month k (month 1 is 2023-01).
RECURSIVE MonthStart(_)
MonthStart(k) == IF k <= 1 THEN 0 ELSE MonthStart(k - 1) + MonthLengths[k - 1]

\* MonthStart as a table, one entry past the last month.
MonthStarts == [k \in 1 .. (Len(MonthLengths) + 1) |-> MonthStart(k)]

\* The month a day lies in: (year, month) as one index, 2023-01 being 1.
MonthOf(day) ==
    CHOOSE k \in 1 .. Len(MonthLengths) :
        MonthStarts[k] <= day /\ day < MonthStarts[k + 1]

\* The process starts on 2024-03-31.
StartDay == MonthStarts[15] + 30

\* datetime.now().date(), date.today()
Today == StartDay + (now \div MinutesPerDay)

\* A well-formed "YYYY-MM-DD" string names a day; any other string does not.
DateString(day) == [ymd |-> day]

BadDateString == [text |-> "not a date"]

\* format_date(date_obj)
format_date(date_obj) == DateString(date_obj)

\* parse_date(date_str): the day, or None where strptime raises ValueError.
parse_date(date_str) ==
    IF "ymd" \in DOMAIN date_str THEN [day |-> date_str.ymd] ELSE None

\* round(x, ndigits) of the quotient n / d, to the nearest unit, a tie going
\* to the even neighbour.
RoundDiv(n, d) ==
    LET q == n \div d
        r == n % d
    IN IF 2 * r < d THEN q
       ELSE IF 2 * r > d THEN q + 1
       ELSE IF q % 2 = 0 THEN q ELSE q + 1

\* get_days_since(purchase_date)
get_days_since(purchase_date) == Today - purchase_date

\* A variant that counts the day of purchase as a day of use.
calculate_daily_cost_inclusive(purchase_amount, purchase_date) ==
    LET days_used == Max(1, (Today - purchase_date) + 1) IN
    RoundDiv(purchase_amount * 100, days_used)

\* calculate_daily_cost(purchase_amount, purchase_date): purchase_amount in
\* cents, the result in ten-thousandths (round(..., 4)).
calculate_daily_cost(purchase_amount, purchase_date) ==
    LET days_used == Max(1, Today - purchase_date) IN
    RoundDiv(purchase_amount * 100, days_used)

----------------------------------------------------------------------------
(* src/router/items.py: the request models *)

\* What a client may send.  Amounts are in thousandths: 0, 0.001 and 1.00.
NameInputs == {"", "a", "b"}

AmountInputs == {0, 1, 1000}

DateInputs ==
    {BadDateString, DateString(StartDay - 2), DateString(StartDay),
     DateString(StartDay + MaxDay + 1)}

\* round(v, 2) of an amount in thousandths: cents.
Round2(v) == RoundDiv(v, 10)

\* validate_date: the string is kept when it parses to a day that is not in
\* the future; both failures raise ValueError.
validate_date(v) ==
    IF parse_date(v) = None THEN FALSE ELSE parse_date(v).day <= Today

\* ItemCreate(**body): the validated model, or None where pydantic rejects
\* the body (min_length=1, gt=0, the validators).
ItemCreate(name, purchase_date, purchase_amount) ==
    IF name = "" \/ ~validate_date(purchase_date) \/ ~(purchase_amount > 0)
    THEN None
    ELSE [name |-> name, purchase_date |-> purchase_date,
          purchase_amount |-> Round2(purchase_amount)]

\* An optional field: None when the body leaves it out, else Some(value).
Some(v) == [v |-> v]

\* ItemUpdate(**body): every field is optional; a field that is sent passes
\* the same checks as in ItemCreate.
ItemUpdate(name, purchase_date, purchase_amount) ==
    IF \/ (name # None /\ name.v = "")
       \/ (purchase_date # None /\ ~validate_date(purchase_date.v))
       \/ (purchase_amount # None /\ ~(purchase_amount.v > 0))
    THEN None
    ELSE [name |-> name, purchase_date |-> purchase_date,
          purchase_amount |-> IF purchase_amount = None THEN None
                              ELSE Some(Round2(purchase_amount.v))]

\* BatchDeleteRequest(**body): min_items=1.
BatchDeleteRequest(item_ids) ==
    IF item_ids = {} THEN None ELSE [item_ids |-> item_ids]

----------------------------------------------------------------------------
(* src/router/items.py: the handlers that write *)

\* The same query without the is_delete condition.
SelectItem_with_deleted(tbl, item_id, user_id) ==
    IF /\ item_id \in DOMAIN tbl
       /\ tbl[item_id].user_id = user_id
    THEN tbl[item_id]
    ELSE None

\* The same query without the user_id condition.
SelectItem_of_anyone(tbl, item_id, user_id) ==
    IF /\ item_id \in DOMAIN tbl
       /\ tbl[item_id].is_delete = FALSE
    THEN tbl[item_id]
    ELSE None

\* and_(Item.id == item_id, Item.user_id == current_user.id,
\*      Item.is_delete == False) / scalar_one_or_none()
SelectItem(tbl, item_id, user_id) ==
    IF /\ item_id \in DOMAIN tbl
       /\ tbl[item_id].user_id = user_id
       /\ tbl[item_id].is_delete = FALSE
    THEN tbl[item_id]
    ELSE None

\* error_response("...", "ITEM_NOT_FOUND", 404): the third positional
\* parameter of error_response is data, so 404 is the data and code stays 400.
ItemNotFound == Http200(error_response("item not found", "ITEM_NOT_FOUND", 404, 400))

\* create_item: the row Item(...) that db.add / db.commit inserts.
create_item_row(tbl, item_data, current_user) ==
    [id |-> Len(tbl) + 1,
     user_id |-> current_user.id,
     name |-> item_data.name,
     purchase_date |-> parse_date(item_data.purchase_date).day,
     purchase_amount |-> item_data.purchase_amount,
     daily_cost |-> calculate_daily_cost(item_data.purchase_amount,
                                         parse_date(item_data.purchase_date).day),
     is_delete |-> FALSE]

\* The dict a write handler returns for a row.
ItemResponseData(item) ==
    [id |-> item.id, name |-> item.name,
     purchase_date |-> format_date(item.purchase_date),
     purchase_amount |-> item.purchase_amount,
     daily_cost |-> item.daily_cost,
     days_used |-> get_days_since(item.purchase_date)]

create_item_response(tbl, name, purchase_date, purchase_amount, current_user) ==
    LET item_data == ItemCreate(name, purchase_date, purchase_amount) IN
    IF item_data = None THEN RequestValidationError
    ELSE Http200(success_response(
             ItemResponseData(create_item_row(tbl, item_data, current_user)),
             "item created", 201))

\* The items table after the handler: what db.commit() has written.
create_item_commit(tbl, name, purchase_date, purchase_amount, current_user) ==
    LET item_data == ItemCreate(name, purchase_date, purchase_amount) IN
    IF item_data = None THEN tbl
    ELSE Append(tbl, create_item_row(tbl, item_data, current_user))

create_item_do(name, purchase_date, purchase_amount, current_user) ==
    /\ ItemCreate(name, purchase_date, purchase_amount) # None => Len(items) < MaxItems
    /\ items' = create_item_commit(items, name, purchase_date, purchase_amount,
                                   current_user)
    /\ UNCHANGED <<now, redis, nextUuid, users, probe, token_cache>>

\* A variant that recomputes the daily cost only when the request carries an
\* amount or a date.
update_item_row_lazy(item, item_data) ==
    LET name == IF item_data.name # None THEN item_data.name.v ELSE item.name
        purchase_date ==
            IF item_data.purchase_date # None
            THEN parse_date(item_data.purchase_date.v).day
            ELSE item.purchase_date
        purchase_amount ==
            IF item_data.purchase_amount # None THEN item_data.purchase_amount.v
            ELSE item.purchase_amount
    IN [item EXCEPT !.name = name,
                    !.purchase_date = purchase_date,
                    !.purchase_amount = purchase_amount,
                    !.daily_cost =
                        IF item_data.purchase_date = None /\ item_data.purchase_amount = None
                        THEN item.daily_cost
                        ELSE calculate_daily_cost(purchase_amount, purchase_date)]

\* update_item: the row after the assignments of lines 274-282.
update_item_row(item, item_data) ==
    LET name == IF item_data.name # None THEN item_data.name.v ELSE item.name
        purchase_date ==
            IF item_data.purchase_date # None
            THEN parse_date(item_data.purchase_date.v).day
            ELSE item.purchase_date
        purchase_amount ==
            IF item_data.purchase_amount # None THEN item_data.purchase_amount.v
            ELSE item.purchase_amount
    IN [item EXCEPT !.name = name,
                    !.purchase_date = purchase_date,
                    !.purchase_amount = purchase_amount,
                    !.daily_cost = calculate_daily_cost(purchase_amount, purchase_date)]

update_item_response(tbl, item_id, name, purchase_date, purchase_amount, current_user) ==
    LET item_data == ItemUpdate(name, purchase_date, purchase_amount)
        item == SelectItem(tbl, item_id, current_user.id)
    IN IF item_data = None THEN RequestValidationError
       ELSE IF item = None THEN ItemNotFound
       ELSE Http200(success_response(
                ItemResponseData(update_item_row(item, item_data)),
                "item updated", 200))

update_item_commit(tbl, item_id, name, purchase_date, purchase_amount, current_user) ==
    LET item_data == ItemUpdate(name, purchase_date, purchase_amount)
        item == SelectItem(tbl, item_id, current_user.id)
    IN IF item_data = None \/ item = None THEN tbl
       ELSE [tbl EXCEPT ![item_id] = update_item_row(item, item_data)]

update_item_do(item_id, name, purchase_date, purchase_amount, current_user) ==
    /\ items' = update_item_commit(items, item_id, name, purchase_date,
                                   purchase_amount, current_user)
    /\ UNCHANGED <<now, redis, nextUuid, users, probe, token_cache>>

delete_item_response(tbl, item_id, current_user) ==
    IF SelectItem(tbl, item_id, current_user.id) = None THEN ItemNotFound
    ELSE Http200(success_response([id |-> item_id], "item deleted", 200))

delete_item_commit(tbl, item_id, current_user) ==
    IF SelectItem(tbl, item_id, current_user.id) = None THEN tbl
    ELSE [tbl EXCEPT ![item_id].is_delete = TRUE]

delete_item_do(item_id, current_user) ==
    /\ items' = delete_item_commit(items, item_id, current_user)
    /\ UNCHANGED <<now, redis, nextUuid, users, probe, token_cache>>

\* The same selection without the owner condition.
batch_delete_selected_of_anyone(tbl, item_ids, user_id) ==
    {i \in DOMAIN tbl : /\ i \in item_ids
                        /\ tbl[i].is_delete = FALSE}

\* batch_delete_items: and_(Item.id.in_(item_ids), Item.user_id ==
\* current_user.id, Item.is_delete == False): the ids of the rows it selects.
batch_delete_selected(tbl, item_ids, user_id) ==
    {i \in DOMAIN tbl : /\ i \in item_ids
                        /\ tbl[i].user_id = user_id
                        /\ tbl[i].is_delete = FALSE}

\* The handler function batch_delete_items, for a request that reaches it.
batch_delete_items_response(tbl, item_ids, current_user) ==
    LET request_data == BatchDeleteRequest(item_ids)
        selected == batch_delete_selected(tbl, item_ids, current_user.id)
    IN IF request_data = None THEN RequestValidationError
       ELSE IF selected = {}
       THEN Http200(error_response("no items to delete", "NO_ITEMS_FOUND", 404, 400))
       ELSE Http200(success_response(
                [deleted_count |-> Cardinality(selected), item_ids |-> selected],
                "items deleted", 200))

batch_delete_items_commit(tbl, item_ids, current_user) ==
    LET request_data == BatchDeleteRequest(item_ids)
        selected == batch_delete_selected(tbl, item_ids, current_user.id)
    IN IF request_data = None THEN tbl
       ELSE [i \in DOMAIN tbl |->
                IF i \in selected THEN [tbl[i] EXCEPT !.is_delete = TRUE]
                ELSE tbl[i]]

batch_delete_items_do(item_ids, current_user) ==
    /\ items' = batch_delete_items_commit(items, item_ids, current_user)
    /\ UNCHANGED <<now, redis, nextUuid, users, probe, token_cache>>

----------------------------------------------------------------------------
(* src/router/items.py: the handlers that read *)

\* The sum of f over the rows of tbl whose id is in ids.
RECURSIVE SumOver(_, _, _)
SumOver(tbl, ids, field) ==
    IF ids = {} THEN 0
    ELSE LET i == CHOOSE j \in ids : TRUE
         IN tbl[i][field] + SumOver(tbl, ids \ {i}, field)

\* ORDER BY key: the ids in ascending (descending) order of key; rows with
\* equal keys come in the order of their ids, the order of the table scan.
RECURSIVE OrderBy(_, _, _, _)
OrderBy(tbl, ids, key, descending) ==
    IF ids = {} THEN <<>>
    ELSE LET first ==
                 CHOOSE i \in ids : \A j \in ids :
                     \/ (IF descending THEN tbl[i][key] > tbl[j][key]
                                       ELSE tbl[i][key] < tbl[j][key])
                     \/ (tbl[i][key] = tbl[j][key] /\ i <= j)
         IN <<first>> \o OrderBy(tbl, ids \ {first}, key, descending)

\* name LIKE '%search%', for the one-letter names of NameInputs.
Like(name, search) == name = search

\* getattr(Item, sort_by, Item.purchase_date)
OrderColumn(sort_by) ==
    IF sort_by \in {"id", "name", "purchase_date", "purchase_amount", "daily_cost"}
    THEN sort_by
    ELSE "purchase_date"

\* OFFSET offset LIMIT limit
OffsetLimit(seq, offset, limit) ==
    SubSeq(seq, offset + 1, IF offset + limit < Len(seq) THEN offset + limit ELSE Len(seq))

\* The dict a read handler returns for a row: the daily cost as of today.
ItemData(item) ==
    [id |-> item.id, name |-> item.name,
     purchase_date |-> format_date(item.purchase_date),
     purchase_amount |-> item.purchase_amount,
     daily_cost |-> calculate_daily_cost(item.purchase_amount, item.purchase_date),
     days_used |-> get_days_since(item.purchase_date)]

\* A variant whose page count rounds down.
paginated_response_floor(item_list, total, page, size, message) ==
    [success |-> TRUE, message |-> message, code |-> 200,
     data |-> [items |-> item_list, total |-> total, page |-> page,
               size |-> size, pages |-> total \div size]]

\* paginated_response(items, total, page, size, message)
paginated_response(item_list, total, page, size, message) ==
    [success |-> TRUE, message |-> message, code |-> 200,
     data |-> [items |-> item_list, total |-> total, page |-> page,
               size |-> size, pages |-> (total + size - 1) \div size]]

\* get_items: the conditions list, as the set of ids the WHERE clause keeps.
\* search, start_date and end_date are None or Some(string); an empty string
\* is falsy and adds no condition.
get_items_conditions(tbl, search, start_date_obj, end_date_obj, user_id) ==
    {i \in DOMAIN tbl :
        /\ tbl[i].user_id = user_id
        /\ tbl[i].is_delete = FALSE
        /\ (search # None /\ search.v # "") => Like(tbl[i].name, search.v)
        /\ start_date_obj # None => tbl[i].purchase_date >= start_date_obj.day
        /\ end_date_obj # None => tbl[i].purchase_date <= end_date_obj.day}

get_items_response(tbl, page, size, search, start_date, end_date, sort_by, sort_order, current_user) ==
    LET start_date_obj == IF start_date = None THEN None ELSE parse_date(start_date.v)
        end_date_obj == IF end_date = None THEN None ELSE parse_date(end_date.v)
        selected == get_items_conditions(tbl, search, start_date_obj, end_date_obj,
                                         current_user.id)
        ordered == OrderBy(tbl, selected, OrderColumn(sort_by), sort_order # "asc")
        rows == OffsetLimit(ordered, (page - 1) * size, size)
    IN IF start_date # None /\ start_date_obj = None
       THEN Http200(error_response("bad start date", "INVALID_START_DATE", None, 400))
       ELSE IF end_date # None /\ end_date_obj = None
       THEN Http200(error_response("bad end date", "INVALID_END_DATE", None, 400))
       ELSE Http200(paginated_response(
                [k \in 1 .. Len(rows) |-> ItemData(tbl[rows[k]])],
                Cardinality(selected), page, size, "items listed"))

get_item_response(tbl, item_id, current_user) ==
    LET item == SelectItem(tbl, item_id, current_user.id) IN
    IF item = None THEN ItemNotFound
    ELSE Http200(success_response(ItemData(item), "item found", 200))

----------------------------------------------------------------------------
(* src/router/stats.py *)

\* date.year and date.month of a day.
YearOf(day) == 2023 + ((MonthOf(day) - 1) \div 12)

MonthNumberOf(day) == ((MonthOf(day) - 1) % 12) + 1

\* strftime("%Y-%m")
YearMonth(day) == [year |-> YearOf(day), month |-> MonthNumberOf(day)]

\* base_conditions of get_overview_stats
overview_conditions(tbl, user_id) ==
    {i \in DOMAIN tbl : tbl[i].user_id = user_id /\ tbl[i].is_delete = FALSE}

\* get_overview_stats.  total_daily_cost starts as the float 0.0 and the
\* first pass of the loop adds a Decimal to it (line 81): float += Decimal
\* raises TypeError, which the handler's except turns into an error body.
\* With no row the loop body does not run.
get_overview_stats_response(tbl, current_user) ==
    LET selected == overview_conditions(tbl, current_user.id) IN
    IF selected # {}
    THEN error_response("overview failed", "OVERVIEW_STATS_ERROR", None, 400)
    ELSE success_response(
             [total_items |-> 0, total_cost |-> 0, total_daily_cost |-> 0,
              average_daily_cost |-> 0, most_expensive_item |-> None,
              latest_item |-> None, longest_used_item |-> None],
             "overview", 200)

\* get_cost_trends: the ids month_conditions keeps for the i-th month back.
trends_month_conditions(tbl, months, i, user_id) ==
    LET start_date == Today - months * 30
        month_date == Today - i * 30
    IN {j \in DOMAIN tbl :
           /\ tbl[j].user_id = user_id
           /\ tbl[j].is_delete = FALSE
           /\ tbl[j].purchase_date >= start_date
           /\ tbl[j].purchase_date <= Today
           /\ YearMonth(tbl[j].purchase_date) = YearMonth(month_date)}

\* The running total of the total_spent of the first k entries.
RECURSIVE Cumulative(_, _)
Cumulative(stats, k) ==
    IF k = 0 THEN 0 ELSE Cumulative(stats, k - 1) + stats[k].total_spent

get_cost_trends_response(tbl, months, current_user) ==
    LET \* the list after monthly_stats.reverse(): entry k is month months-k back
        monthly_stats ==
            [k \in 1 .. months |->
                LET selected == trends_month_conditions(tbl, months, months - k,
                                                        current_user.id)
                IN [month |-> YearMonth(Today - (months - k) * 30),
                    items_added |-> Cardinality(selected),
                    total_spent |-> SumOver(tbl, selected, "purchase_amount")]]
    IN success_response(
           [monthly_stats |->
                [k \in 1 .. months |->
                    [month |-> monthly_stats[k].month,
                     items_added |-> monthly_stats[k].items_added,
                     total_spent |-> monthly_stats[k].total_spent,
                     cumulative_cost |-> Cumulative(monthly_stats, k)]],
            period |-> <<YearMonth(Today - months * 30), YearMonth(Today)>>],
           "trends", 200)

\* base_conditions of get_monthly_stats
monthly_conditions(tbl, target_year, target_month, user_id) ==
    {i \in DOMAIN tbl :
        /\ tbl[i].user_id = user_id
        /\ tbl[i].is_delete = FALSE
        /\ YearOf(tbl[i].purchase_date) = target_year
        /\ MonthNumberOf(tbl[i].purchase_date) = target_month}

\* get_monthly_stats: year and month are None or Some(int).
get_monthly_stats_response(tbl, year, month, current_user) ==
    LET target_year == IF year # None THEN year.v ELSE YearOf(Today)
        target_month == IF month # None THEN month.v ELSE MonthNumberOf(Today)
        selected == monthly_conditions(tbl, target_year, target_month, current_user.id)
        rows == OrderBy(tbl, selected, "purchase_date", TRUE)
        items_list == [k \in 1 .. Len(rows) |-> ItemData(tbl[rows[k]])]
        total_cost == SumOver(tbl, selected, "purchase_amount")
        total_daily_cost == SumOver(items_list, 1 .. Len(rows), "daily_cost")
    IN success_response(
           [year |-> target_year, month |-> target_month,
            total_items |-> Len(rows),
            total_cost |-> total_cost,
            total_daily_cost |-> total_daily_cost,
            average_item_cost |->
                IF Len(rows) > 0 THEN RoundDiv(total_cost, Len(rows)) ELSE 0,
            average_daily_cost |->
                IF Len(rows) > 0 THEN RoundDiv(total_daily_cost, Len(rows)) ELSE 0,
            items |-> items_list],
           "monthly", 200)

\* A variant that answers a failing part with its own error.
get_dashboard_stats_response_wrapped(tbl, current_user) ==
    LET overview_response == get_overview_stats_response(tbl, current_user)
        trends_response == get_cost_trends_response(tbl, 6, current_user)
        monthly_response == get_monthly_stats_response(tbl, None, None, current_user)
    IN IF ~(overview_response.success /\ trends_response.success
                /\ monthly_response.success)
       THEN error_response("dashboard failed", "DASHBOARD_STATS_ERROR", None, 400)
       ELSE success_response(
                [overview |-> overview_response.data,
                 trends |-> trends_response.data,
                 current_month |-> monthly_response.data,
                 quick_stats |->
                     [items_this_month |-> monthly_response.data.total_items,
                      spent_this_month |-> monthly_response.data.total_cost,
                      total_items |-> overview_response.data.total_items,
                      total_cost |-> overview_response.data.total_cost]],
                "dashboard", 200)

get_dashboard_stats_response(tbl, current_user) ==
    LET overview_response == get_overview_stats_response(tbl, current_user)
        trends_response == get_cost_trends_response(tbl, 6, current_user)
        monthly_response == get_monthly_stats_response(tbl, None, None, current_user)
    IN IF ~overview_response.success THEN overview_response
       ELSE IF ~trends_response.success THEN trends_response
       ELSE IF ~monthly_response.success THEN monthly_response
       ELSE success_response(
                [overview |-> overview_response.data,
                 trends |-> trends_response.data,
                 current_month |-> monthly_response.data,
                 quick_stats |->
                     [items_this_month |-> monthly_response.data.total_items,
                      spent_this_month |-> monthly_response.data.total_cost,
                      total_items |-> overview_response.data.total_items,
                      total_cost |-> overview_response.data.total_cost]],
                "dashboard", 200)

----------------------------------------------------------------------------
(* The item and statistics requests *)

ItemIdInputs == 1 .. (MaxItems + 1)

\* The bodies of PUT requests: no field, each field alone with a value the
\* model accepts or rejects, and several fields together.
NoFields == [name |-> None, purchase_date |-> None, purchase_amount |-> None]

UpdateInputs ==
    {NoFields,
     [NoFields EXCEPT !.name = Some("b")],
     [NoFields EXCEPT !.name = Some("")],
     [NoFields EXCEPT !.purchase_date = Some(DateString(StartDay - 2))],
     [NoFields EXCEPT !.purchase_date = Some(DateString(StartDay))],
     [NoFields EXCEPT !.purchase_date = Some(DateString(StartDay + MaxDay + 1))],
     [NoFields EXCEPT !.purchase_date = Some(BadDateString)],
     [NoFields EXCEPT !.purchase_amount = Some(0)],
     [NoFields EXCEPT !.purchase_amount = Some(1)],
     [NoFields EXCEPT !.purchase_amount = Some(1000)],
     [name |-> Some("a"), purchase_date |-> Some(DateString(StartDay)),
      purchase_amount |-> Some(1000)],
     [name |-> None, purchase_date |-> Some(DateString(StartDay - 2)),
      purchase_amount |-> Some(1)]}

\* The queries of GET /api/items/: the defaults of the route, and queries
\* that differ from them in a page, a filter or the order.
DefaultQuery ==
    [page |-> 1, size |-> 2, search |-> None, start_date |-> None,
     end_date |-> None, sort_by |-> "purchase_date", sort_order |-> "desc"]

QueryInputs ==
    {DefaultQuery,
     [DefaultQuery EXCEPT !.size = 1],
     [DefaultQuery EXCEPT !.size = 1, !.page = 2],
     [DefaultQuery EXCEPT !.page = 2],
     [DefaultQuery EXCEPT !.search = Some("a")],
     [DefaultQuery EXCEPT !.start_date = Some(DateString(StartDay - 1))],
     [DefaultQuery EXCEPT !.start_date = Some(BadDateString)],
     [DefaultQuery EXCEPT !.end_date = Some(DateString(StartDay - 1))],
     [DefaultQuery EXCEPT !.end_date = Some(BadDateString)],
     [DefaultQuery EXCEPT !.sort_order = "asc"],
     [DefaultQuery EXCEPT !.sort_by = "purchase_amount"],
     [DefaultQuery EXCEPT !.sort_by = "purchase_amount", !.sort_order = "asc"],
     [DefaultQuery EXCEPT !.sort_by = "no such column", !.sort_order = "asc"]}

MonthsInputs == {1, 6}

YearInputs == {None, Some(2024)}

MonthInputs == {None, Some(3)}

\* POST /api/items/
create_item ==
    \E name \in NameInputs, purchase_date \in DateInputs,
       purchase_amount \in AmountInputs, current_user \in CurrentUsers :
        create_item_do(name, purchase_date, purchase_amount, current_user)

\* PUT /api/items/{item_id}
update_item ==
    \E item_id \in ItemIdInputs, body \in UpdateInputs, current_user \in CurrentUsers :
        update_item_do(item_id, body.name, body.purchase_date,
                       body.purchase_amount, current_user)

\* DELETE /api/items/{item_id}
delete_item ==
    \E item_id \in ItemIdInputs, current_user \in CurrentUsers :
        delete_item_do(item_id, current_user)

\* The handler function batch_delete_items
batch_delete_items ==
    \E item_ids \in SUBSET ItemIdInputs, current_user \in CurrentUsers :
        batch_delete_items_do(item_ids, current_user)

\* GET /api/items/
get_items ==
    \E q \in QueryInputs, current_user \in CurrentUsers :
        /\ get_items_response(items, q.page, q.size, q.search, q.start_date,
                              q.end_date, q.sort_by, q.sort_order,
                              current_user).http = 200
        /\ UNCHANGED vars

\* GET /api/items/{item_id}
get_item ==
    \E item_id \in ItemIdInputs, current_user \in CurrentUsers :
        /\ get_item_response(items, item_id, current_user).http = 200
        /\ UNCHANGED vars

\* GET /api/stats/overview
get_overview_stats ==
    \E current_user \in CurrentUsers :
        /\ Http200(get_overview_stats_response(items, current_user)).http = 200
        /\ UNCHANGED vars

\* GET /api/stats/trends
get_cost_trends ==
    \E months \in MonthsInputs, current_user \in CurrentUsers :
        /\ Http200(get_cost_trends_response(items, months, current_user)).http = 200
        /\ UNCHANGED vars

\* GET /api/stats/monthly
get_monthly_stats ==
    \E year \in YearInputs, month \in MonthInputs, current_user \in CurrentUsers :
        /\ Http200(get_monthly_stats_response(items, year, month, current_user)).http = 200
        /\ UNCHANGED vars

\* GET /api/stats/dashboard
get_dashboard_stats ==
    \E current_user \in CurrentUsers :
        /\ Http200(get_dashboard_stats_response(items, current_user)).http = 200
        /\ UNCHANGED vars

\* A day passes.
TickDay ==
    /\ now \div MinutesPerDay < MaxDay
    /\ now' = now + MinutesPerDay
    /\ redis' = RedisLive(redis, now + MinutesPerDay)
    /\ UNCHANGED <<nextUuid, users, items, probe, token_cache>>

NextItems ==
    \/ wechat_callback
    \/ create_item
    \/ update_item
    \/ delete_item
    \/ batch_delete_items
    \/ get_items
    \/ get_item
    \/ get_overview_stats
    \/ get_cost_trends
    \/ get_monthly_stats
    \/ get_dashboard_stats
    \/ TickDay

SpecItems == Init /\ [][NextItems]_vars

----------------------------------------------------------------------------
(* A direct call of calculate_daily_cost *)

\* Amounts in cents.
ProbeAmounts == {0, 1, 100, 250, 999}

ProbeDates == (StartDay - 3) .. (StartDay + MaxDay + 1)

InitCost ==
    /\ now = 0
    /\ redis = << >>
    /\ nextUuid = 1
    /\ users = StoredUsers
    /\ items = << >>
    /\ token_cache = None
    /\ probe \in [purchase_amount : ProbeAmounts, purchase_date : ProbeDates,
                  returned : {FALSE}, today : {StartDay}, result : {0}]

\* calculate_daily_cost(probe.purchase_amount, probe.purchase_date) is called
\* and returns; today is the datetime.now().date() it read.
calculate_daily_cost_call ==
    /\ probe' = [probe EXCEPT
                    !.returned = TRUE,
                    !.today = Today,
                    !.result = calculate_daily_cost(probe.purchase_amount,
                                                    probe.purchase_date)]
    /\ UNCHANGED <<now, redis, nextUuid, users, items, token_cache>>

NextCost ==
    \/ calculate_daily_cost_call
    \/ TickDay

SpecCost == InitCost /\ [][NextCost]_vars

----------------------------------------------------------------------------
(* The provider token: WechatLoginService.get_access_token.  The times of  *)
(* this part are minutes: 600 seconds are 10, 7200 seconds are 120.        *)

\* self.access_token_expire_minutes
access_token_expire_minutes == 110

\* The buffer of 600 seconds taken off expires_in.
CacheBufferMinutes == 10

\* data.get("expires_in", 7200)
DefaultExpiresIn == 120

Min(a, b) == IF a <= b THEN a ELSE b

\* The expires_in values the provider may send.
ExpiresInInputs == {5, 10, 11, 12, 200}

\* What the call of the provider gives: an exception of httpx, a body with
\* errmsg, or a body with access_token and, optionally, expires_in.
ProviderResponses ==
    {[kind |-> "exception"], [kind |-> "errmsg"],
     [kind |-> "token", expires_in |-> None]}
    \cup {[kind |-> "token", expires_in |-> Some(e)] : e \in ExpiresInInputs}

\* redis.client.get("wechat_access_token")
TokenCacheGet ==
    IF token_cache # None /\ now < token_cache.expire_at
    THEN token_cache.value
    ELSE None

\* _refresh_access_token with the provider answering `response`: the value it
\* returns and the cache it leaves.  The provider's token is named by the
\* time it was issued and its lifetime.  SETEX with a time of 0 or less is an
\* error of the server, which `except Exception` turns into None.
_refresh_access_token(response) ==
    IF response.kind # "token"
    THEN [result |-> None, cache |-> token_cache]
    ELSE LET expires_in == IF response.expires_in = None THEN DefaultExpiresIn
                           ELSE response.expires_in.v
             access_token == [issued_at |-> now, expires_in |-> expires_in]
             cache_expire == Min(access_token_expire_minutes,
                                 expires_in - CacheBufferMinutes)
         IN IF cache_expire <= 0
            THEN [result |-> None, cache |-> token_cache]
            ELSE [result |-> access_token,
                  cache |-> [value |-> [access_token |-> access_token,
                                        expires_in |-> expires_in,
                                        created_at |-> now],
                             expire_at |-> now + cache_expire]]

\* get_access_token: contacted says whether the provider was called.
get_access_token(response) ==
    LET cached_token == TokenCacheGet IN
    IF cached_token # None
    THEN [result |-> cached_token.access_token, cache |-> token_cache,
          contacted |-> FALSE]
    ELSE [result |-> _refresh_access_token(response).result,
          cache |-> _refresh_access_token(response).cache,
          contacted |-> TRUE]

\* A call of get_access_token; probe keeps what it returned, what the cache
\* held before it and what the provider would answer.
get_access_token_call ==
    \E response \in ProviderResponses :
        /\ probe' = [result |-> get_access_token(response).result,
                     contacted |-> get_access_token(response).contacted,
                     response |-> response,
                     cached |-> TokenCacheGet,
                     at |-> now]
        /\ token_cache' = get_access_token(response).cache
        /\ UNCHANGED <<now, redis, nextUuid, users, items>>

NextToken ==
    \/ get_access_token_call
    \/ TickMinute

SpecToken == Init /\ [][NextToken]_vars

----------------------------------------------------------------------------
(* Database failures *)

\* The error code each handler's `except Exception` clause answers with.
ExceptErrorCode ==
    [get_items |-> "GET_ITEMS_ERROR",
     get_item |-> "GET_ITEM_ERROR",
     create_item |-> "CREATE_ITEM_ERROR",
     update_item |-> "UPDATE_ITEM_ERROR",
     delete_item |-> "DELETE_ITEM_ERROR",
     batch_delete_items |-> "BATCH_DELETE_ERROR",
     get_overview_stats |-> "OVERVIEW_STATS_ERROR",
     get_cost_trends |-> "TRENDS_STATS_ERROR",
     get_monthly_stats |-> "MONTHLY_STATS_ERROR",
     get_dashboard_stats |-> "DASHBOARD_STATS_ERROR"]

\* The handler's answer when a statement or the commit raises: the except
\* clause returns error_response(message, error_code) and code keeps its
\* default.
except_Exception_response(handler) ==
    Http200(error_response("handler failed", ExceptErrorCode[handler], None, 400))

\* A request to one of the handlers during which the database raises.  The
\* session is rolled back, so no row changes; probe keeps the answer.
database_error ==
    /\ \E handler \in DOMAIN ExceptErrorCode, current_user \in CurrentUsers :
          probe' = [handler |-> handler,
                    response |-> except_Exception_response(handler)]
    /\ UNCHANGED <<now, redis, nextUuid, users, items, token_cache>>

NextFailure ==
    \/ create_item
    \/ delete_item
    \/ database_error
    \/ TickDay

SpecFailure == Init /\ [][NextFailure]_vars

----------------------------------------------------------------------------
(* Concurrent callbacks.  wechat_callback awaits between its SELECT and its
   commit, so two requests can interleave there.  probe holds each request's
   position and what it has read. *)

MaxRequests == 2

Requests == 1 .. MaxRequests

\* No unique index: every insert is accepted.
UniqueViolation_never(tbl, openid) == FALSE

\* models.py User.openid, unique=True: an INSERT of an openid that a row of
\* the table already has, deleted or not, raises IntegrityError.
UniqueViolation(tbl, openid) ==
    \E u \in DOMAIN tbl : tbl[u].openid = openid

InitCallback ==
    /\ now = 0
    /\ redis = << >>
    /\ nextUuid = 1
    /\ users = StoredUsers
    /\ items = << >>
    /\ probe = [r \in Requests |-> [pc |-> "idle"]]
    /\ token_cache = None

\* wechat_callback up to the result of its SELECT (auth.py lines 74-89).
callback_select(r) ==
    /\ probe[r].pc = "idle"
    /\ \E state \in UuidInputs, outcome \in CodeOutcomes :
          LET user_data == get_user_info_by_code(outcome) IN
          probe' = [probe EXCEPT ![r] =
                       IF user_data = None
                       THEN [pc |-> "done", user_data |-> None, user |-> None,
                             login |-> None,
                             response |-> wechat_callback_response(state, None)]
                       ELSE [pc |-> "selected", state |-> state,
                             user_data |-> user_data,
                             user |-> SelectUserByOpenid(user_data.openid)]]
    /\ UNCHANGED <<now, redis, nextUuid, users, items, token_cache>>

\* wechat_callback from `if not user` to its return (auth.py lines 91-131).
callback_commit(r) ==
    /\ probe[r].pc = "selected"
    /\ LET q == probe[r]
           raised == q.user = None /\ UniqueViolation(users, q.user_data.openid)
           table == IF q.user = None THEN InsertUser(q.user_data.openid) ELSE users
           user == IF q.user = None THEN table[Len(table)] ELSE q.user
           token_pair == generate_token_pair(user.id, [openid |-> user.openid], now)
       IN IF raised
          THEN /\ probe' = [probe EXCEPT ![r] =
                               [pc |-> "done", user_data |-> q.user_data,
                                user |-> q.user, login |-> None,
                                response |-> Http200(error_response(
                                    "callback failed", "CALLBACK_PROCESS_ERROR",
                                    None, 400))]]
               /\ UNCHANGED <<users, redis>>
          ELSE /\ users' = table
               /\ redis' = update_session_status(
                               CallbackSessionId(q.state), CallbackStatus,
                               [openid |-> user.openid], token_pair.access_token)
               /\ probe' = [probe EXCEPT ![r] =
                               [pc |-> "done", user_data |-> q.user_data,
                                user |-> q.user, login |-> user,
                                response |-> Http200(success_response(
                                    token_pair, "login success", 200))]]
    /\ UNCHANGED <<now, nextUuid, items, token_cache>>

\* The response is sent; the client may send the next request.
callback_return(r) ==
    /\ probe[r].pc = "done"
    /\ probe' = [probe EXCEPT ![r] = [pc |-> "idle"]]
    /\ UNCHANGED <<now, redis, nextUuid, users, items, token_cache>>

NextCallback ==
    \/ \E r \in Requests : callback_select(r)
    \/ \E r \in Requests : callback_commit(r)
    \/ \E r \in Requests : callback_return(r)
    \/ get_wechat_qrcode

SpecCallback == InitCallback /\ [][NextCallback]_vars

----------------------------------------------------------------------------
(* src/router/items.py: the routes of the items router, in the order their
   decorators register them.  Paths are relative to the prefix /api/items. *)

ItemRoutes ==
    << [method |-> "GET",    path |-> "/",          endpoint |-> "get_items"],
       [method |-> "GET",    path |-> "/{item_id}", endpoint |-> "get_item"],
       [method |-> "POST",   path |-> "/",          endpoint |-> "create_item"],
       [method |-> "PUT",    path |-> "/{item_id}", endpoint |-> "update_item"],
       [method |-> "DELETE", path |-> "/{item_id}", endpoint |-> "delete_item"],
       [method |-> "DELETE", path |-> "/batch",     endpoint |-> "batch_delete_items"] >>

MethodInputs == {"GET", "POST", "PUT", "DELETE"}

PathInputs == {"/", "/1", "/2", "/batch"}

\* The path regex of a route: {item_id} matches one segment of any
\* characters; the int annotation is checked after the route is chosen.
PathMatches(route_path, path) ==
    IF route_path = "/{item_id}" THEN path # "/" ELSE route_path = path

\* item_id: int of the chosen route: None where the segment is no integer.
PathItemId(path) ==
    IF path = "/1" THEN Some(1) ELSE IF path = "/2" THEN Some(2) ELSE None

\* The router walks the routes in order and takes the first whose path and
\* method both match; a path that matches under other methods only is 405.
Dispatch(method, path) ==
    LET full == {k \in DOMAIN ItemRoutes :
                    /\ PathMatches(ItemRoutes[k].path, path)
                    /\ ItemRoutes[k].method = method}
        partial == {k \in DOMAIN ItemRoutes : PathMatches(ItemRoutes[k].path, path)}
    IN IF full # {}
       THEN ItemRoutes[CHOOSE k \in full : \A j \in full : k <= j].endpoint
       ELSE IF partial # {} THEN "405" ELSE "404"

\* The answer to a request with a valid login, by the endpoint it reaches.
RoutedResponse(endpoint, path, item_ids, current_user) ==
    IF endpoint \in {"404", "405"} THEN [http |-> IF endpoint = "404" THEN 404 ELSE 405]
    ELSE IF endpoint = "get_items"
    THEN get_items_response(items, DefaultQuery.page, DefaultQuery.size,
             DefaultQuery.search, DefaultQuery.start_date, DefaultQuery.end_date,
             DefaultQuery.sort_by, DefaultQuery.sort_order, current_user)
    ELSE IF endpoint = "create_item"
    THEN create_item_response(items, "a", DateString(StartDay), 1000, current_user)
    ELSE IF endpoint = "batch_delete_items"
    THEN batch_delete_items_response(items, item_ids, current_user)
    ELSE IF PathItemId(path) = None THEN RequestValidationError
    ELSE IF endpoint = "get_item"
    THEN get_item_response(items, PathItemId(path).v, current_user)
    ELSE IF endpoint = "update_item"
    THEN update_item_response(items, PathItemId(path).v, Some("b"), None, None,
                              current_user)
    ELSE delete_item_response(items, PathItemId(path).v, current_user)

RoutedCommit(endpoint, path, item_ids, current_user) ==
    IF endpoint = "create_item"
    THEN create_item_commit(items, "a", DateString(StartDay), 1000, current_user)
    ELSE IF endpoint = "batch_delete_items"
    THEN batch_delete_items_commit(items, item_ids, current_user)
    ELSE IF endpoint \in {"update_item", "delete_item"} /\ PathItemId(path) # None
    THEN IF endpoint = "update_item"
         THEN update_item_commit(items, PathItemId(path).v, Some("b"), None, None,
                                 current_user)
         ELSE delete_item_commit(items, PathItemId(path).v, current_user)
    ELSE items

\* A request to /api/items<path> carrying the body {"item_ids": [...]}.
items_request ==
    \E method \in MethodInputs, path \in PathInputs,
       item_ids \in (SUBSET ItemIdInputs) \ {{}}, current_user \in CurrentUsers :
        LET endpoint == Dispatch(method, path) IN
        /\ endpoint = "create_item" => Len(items) < MaxItems
        /\ items' = RoutedCommit(endpoint, path, item_ids, current_user)
        /\ probe' = [method |-> method, path |-> path, endpoint |-> endpoint,
                     http |-> RoutedResponse(endpoint, path, item_ids,
                                             current_user).http]
        /\ UNCHANGED <<now, redis, nextUuid, users, token_cache>>

NextRoutes ==
    \/ items_request
    \/ TickDay

SpecRoutes == Init /\ [][NextRoutes]_vars

----------------------------------------------------------------------------
(* Concurrent session updates.  update_session_status awaits its GET and
   then its SETEX, so TTL expiry and other updates can fall between the
   two.  probe holds each call's position and the record it has read. *)

\* The calls made: a status alone, or the callback's status with its keyword
\* arguments.
UpdateCalls ==
    {[status |-> "scanned", kwargs |-> None],
     [status |-> "success",
      kwargs |-> [user_info |-> [openid |-> "o1"], token |-> "token"]]}

\* wechat.py lines 148-151: the GET, and `return False` for an absent key.
update_session_status_get(r) ==
    /\ probe[r].pc = "idle"
    /\ \E session_id \in UuidInputs, call \in UpdateCalls :
          LET session_data == RedisGet(session_id) IN
          probe' = [probe EXCEPT ![r] =
                       IF session_data = None
                       THEN [pc |-> "idle", result |-> FALSE]
                       ELSE [pc |-> "read", session_id |-> session_id,
                             call |-> call, data |-> session_data]]
    /\ UNCHANGED <<now, redis, nextUuid, users, items, token_cache>>

\* wechat.py lines 153-164: the record read, with status and the keyword
\* arguments set, is written back with a fresh TTL.
update_session_status_setex(r) ==
    /\ probe[r].pc = "read"
    /\ LET q == probe[r]
           data == IF q.call.kwargs = None
                   THEN [q.data EXCEPT !.status = q.call.status]
                   ELSE [q.data EXCEPT !.status = q.call.status,
                                       !.user_info = q.call.kwargs.user_info,
                                       !.token = q.call.kwargs.token]
       IN redis' = RedisSetex(redis, q.session_id, session_expire_minutes, data)
    /\ probe' = [probe EXCEPT ![r] = [pc |-> "idle", result |-> TRUE]]
    /\ UNCHANGED <<now, nextUuid, users, items, token_cache>>

NextUpdate ==
    \/ \E r \in Requests : update_session_status_get(r)
    \/ \E r \in Requests : update_session_status_setex(r)
    \/ get_wechat_qrcode
    \/ TickMinute

SpecUpdate == InitCallback /\ [][NextUpdate]_vars

----------------------------------------------------------------------------
(* The login session: C1, C2, C3 *)

\* C1: once wechat_callback has succeeded carrying the state that
\* generate_qrcode_url generated for a pending session, polling that session
\* returns status "success" together with the access token just issued.
C1_LoginMovesSessionToSuccess ==
    [][\A state \in UuidInputs, user_data \in UserDataInputs :
          (/\ wechat_callback_do(state, user_data)
           /\ wechat_callback_response(state, user_data).body.success)
          => \A s \in DOMAIN redis :
                (redis[s].value.state = state /\ redis[s].value.status = "pending")
                => /\ get_session_status(s)'.status = "success"
                   /\ get_session_status(s)'.token =
                        wechat_callback_response(state, user_data).body.data.access_token
      ]_vars

StatusRank(status) ==
    CASE status = "pending" -> 0
      [] status = "scanned" -> 1
      [] status = "confirmed" -> 2
      [] OTHER -> 3

\* C2: a stored session status is always one of pending, scanned, confirmed,
\* success, failed, cancelled, and no call of update_session_status moves a
\* session backwards along pending -> scanned -> confirmed -> success |
\* failed | cancelled nor out of success, failed or cancelled.
C2_StatusOnlyMovesForward ==
    /\ [](\A s \in DOMAIN redis : redis[s].value.status \in DOMAIN StatusMessages)
    /\ [][\A s \in (DOMAIN redis) \cap (DOMAIN redis') :
             /\ StatusRank(redis'[s].value.status) >= StatusRank(redis[s].value.status)
             /\ redis[s].value.status \in {"success", "failed", "cancelled"}
                => redis'[s].value.status = redis[s].value.status
         ]_vars

\* C3: get_session_status answers "expired" for a key that is absent and for
\* every session more than session_expire_minutes after its creation, whether
\* or not update_session_status has rewritten the record with a fresh TTL.
C3_SessionLifetimeIsFixed ==
    \A s \in UuidInputs :
        /\ s \notin DOMAIN redis => get_session_status(s).status = "expired"
        /\ (s \in DOMAIN redis
            /\ now > redis[s].value.created_at + session_expire_minutes)
           => get_session_status(s).status = "expired"

\* A session whose key outlives its expires_at, because the callback rewrote
\* it with a fresh TTL, and that is reported expired.
C3_Witness ==
    \E s \in DOMAIN redis :
        /\ now > redis[s].value.created_at + session_expire_minutes
        /\ now < redis[s].expire_at
        /\ redis[s].value.status = "success"
        /\ get_session_status(s).status = "expired"

----------------------------------------------------------------------------
(* Soft deletion and ownership: C4, C5, C6 *)

\* The table without the rows whose ids are not in ids.
Restrict(tbl, ids) == [i \in ids |-> tbl[i]]

LiveRows(tbl) == Restrict(tbl, {i \in DOMAIN tbl : ~tbl[i].is_delete})

RowsOf(tbl, user_id) == Restrict(tbl, {i \in DOMAIN tbl : tbl[i].user_id = user_id})

\* The ids of the rows a list of item dicts shows.
ListedIds(item_list) == {item_list[k].id : k \in DOMAIN item_list}

\* Every read of the item and statistics routes, for one caller, as one value.
AllReads(tbl, current_user) ==
    [list |-> [q \in QueryInputs |->
                  get_items_response(tbl, q.page, q.size, q.search, q.start_date,
                                     q.end_date, q.sort_by, q.sort_order,
                                     current_user)],
     overview |-> get_overview_stats_response(tbl, current_user),
     trends |-> [months \in MonthsInputs |->
                    get_cost_trends_response(tbl, months, current_user)],
     monthly |-> [ym \in YearInputs \X MonthInputs |->
                     get_monthly_stats_response(tbl, ym[1], ym[2], current_user)],
     dashboard |-> get_dashboard_stats_response(tbl, current_user)]

\* The update bodies the request model accepts.
ValidUpdates ==
    {b \in UpdateInputs : ItemUpdate(b.name, b.purchase_date, b.purchase_amount) # None}

\* C4: a soft-deleted row is excluded from every read.  For every caller the
\* results of get_items, get_overview_stats, get_cost_trends,
\* get_monthly_stats and get_dashboard_stats are those of the table without
\* its deleted rows, no list shows a deleted id, and get_item, update_item and
\* delete_item on a deleted id answer ITEM_NOT_FOUND.  A soft-deleted user is
\* found by neither user lookup, is returned by get_current_user for no
\* token, gets no pair from refresh_token and no login from the callback.
C4_DeletedRowsAreNotRead ==
    /\ \A current_user \in CurrentUsers :
          /\ AllReads(items, current_user) = AllReads(LiveRows(items), current_user)
          /\ \A i \in DOMAIN items :
                items[i].is_delete =>
                   /\ get_item_response(items, i, current_user) = ItemNotFound
                   /\ delete_item_response(items, i, current_user) = ItemNotFound
                   /\ \A b \in ValidUpdates :
                         update_item_response(items, i, b.name, b.purchase_date,
                                              b.purchase_amount, current_user)
                            = ItemNotFound
                   /\ \A q \in QueryInputs :
                         LET r == get_items_response(items, q.page, q.size, q.search,
                                      q.start_date, q.end_date, q.sort_by,
                                      q.sort_order, current_user).body
                         IN r.success => i \notin ListedIds(r.data.items)
                   /\ \A ym \in YearInputs \X MonthInputs :
                         i \notin ListedIds(get_monthly_stats_response(
                                      items, ym[1], ym[2], current_user).data.items)
    /\ \A u \in DOMAIN users :
          users[u].is_delete =>
             /\ SelectUserById(IntVal(u)) = None
             /\ SelectUserById(StrVal(u)) = None
             /\ SelectUserByOpenid(users[u].openid) = None
             /\ users[u] \notin CurrentUsers
             /\ \A token \in TokenInputs :
                   /\ get_current_user(token) # [user |-> users[u]]
                   /\ ~refresh_token_response(token).body.success
             /\ \A state \in UuidInputs :
                   ~wechat_callback_response(state, [openid |-> users[u].openid]).body.success

\* A caller has a deleted row next to a row that the reads still show, and
\* the users table holds a soft-deleted user.
C4_Witness ==
    /\ \E i, j \in DOMAIN items :
          /\ items[i].is_delete
          /\ ~items[j].is_delete
          /\ items[i].user_id = items[j].user_id
          /\ items[i].purchase_date = items[j].purchase_date
    /\ \E u \in DOMAIN users : users[u].is_delete

\* C5: an item is visible to its owner only.  For a caller A and a row of
\* another user, get_item, update_item and delete_item answer ITEM_NOT_FOUND,
\* batch_delete_items on a list holding no live row of A answers
\* NO_ITEMS_FOUND, none of A's four writes changes a row of another user,
\* and A's get_items and statistics results are those of the table holding
\* A's rows only.
C5_ItemsAreVisibleToTheirOwnerOnly ==
    \A A \in CurrentUsers :
       /\ AllReads(items, A) = AllReads(RowsOf(items, A.id), A)
       /\ \A i \in DOMAIN items :
             items[i].user_id # A.id =>
                /\ get_item_response(items, i, A) = ItemNotFound
                /\ delete_item_response(items, i, A) = ItemNotFound
                /\ delete_item_commit(items, i, A) = items
                /\ \A b \in ValidUpdates :
                      /\ update_item_response(items, i, b.name, b.purchase_date,
                                              b.purchase_amount, A) = ItemNotFound
                      /\ update_item_commit(items, i, b.name, b.purchase_date,
                                            b.purchase_amount, A) = items
       /\ \A item_ids \in (SUBSET ItemIdInputs) \ {{}} :
             /\ (\A i \in item_ids \cap DOMAIN items :
                    items[i].user_id # A.id \/ items[i].is_delete)
                => /\ batch_delete_items_response(items, item_ids, A).body.error_code
                         = "NO_ITEMS_FOUND"
                   /\ batch_delete_items_commit(items, item_ids, A) = items
             /\ \A i \in DOMAIN items :
                   items[i].user_id # A.id =>
                      /\ batch_delete_items_commit(items, item_ids, A)[i] = items[i]
                      /\ LET r == batch_delete_items_response(items, item_ids, A).body
                         IN r.success => i \notin r.data.item_ids
       /\ \A name \in NameInputs, purchase_date \in DateInputs,
             purchase_amount \in AmountInputs :
             \A i \in DOMAIN items :
                create_item_commit(items, name, purchase_date, purchase_amount, A)[i]
                   = items[i]

\* Two users each own a live row.
C5_Witness ==
    \E i, j \in DOMAIN items :
       /\ items[i].user_id # items[j].user_id
       /\ ~items[i].is_delete
       /\ ~items[j].is_delete
       /\ {items[i].user_id, items[j].user_id} \subseteq {r.id : r \in CurrentUsers}

\* C6: every item row belongs to a user row that exists and is not deleted,
\* and no step changes the user_id of a row, removes a user row or changes
\* one.
C6_ItemsBelongToLiveUsers ==
    /\ [](\A i \in DOMAIN items :
             \E u \in DOMAIN users :
                users[u].id = items[i].user_id /\ ~users[u].is_delete)
    /\ [][/\ \A i \in DOMAIN items :
                i \in DOMAIN items' /\ items'[i].user_id = items[i].user_id
          /\ \A u \in DOMAIN users :
                u \in DOMAIN users' /\ users'[u] = users[u]]_vars

\* A user created by the callback owns an item, beside a soft-deleted user.
C6_Witness ==
    /\ \E i \in DOMAIN items : items[i].user_id \notin DOMAIN StoredUsers
    /\ \E i \in DOMAIN items : items[i].user_id \in DOMAIN StoredUsers
    /\ \E u \in DOMAIN users : users[u].is_delete

----------------------------------------------------------------------------
(* The daily cost: C7, C8 *)

\* q is the quotient n / d rounded to the nearest unit.
IsRounded(q, n, d) == 2 * Abs(q * d - n) <= d

\* q is the quotient n / d exactly.
IsExact(q, n, d) == q * d = n

\* The days between a row's purchase_date and today, at least 1.
DaysOf(row) == Max(1, Today - row.purchase_date)

\* The rows a successful create_item or update_item writes in this state:
\* one for every request the model can send that the handler accepts.
WrittenRows ==
    UNION {
        {create_item_row(items, ItemCreate(name, purchase_date, purchase_amount), A) :
            <<name, purchase_date, purchase_amount>> \in
                {x \in NameInputs \X DateInputs \X AmountInputs :
                    Succeeded(create_item_response(items, x[1], x[2], x[3], A))}}
        \cup
        {update_item_commit(items, x[1], x[2].name, x[2].purchase_date,
                            x[2].purchase_amount, A)[x[1]] :
            x \in {y \in ItemIdInputs \X UpdateInputs :
                    Succeeded(update_item_response(items, y[1], y[2].name,
                                                   y[2].purchase_date,
                                                   y[2].purchase_amount, A))}}
        : A \in CurrentUsers}

\* C7 as stated: after every successful create_item and update_item the
\* stored daily_cost is exactly the stored purchase_amount divided by
\* max(1, days from the stored purchase_date to the day of the write).
C7_DailyCostIsTheExactQuotient ==
    \A row \in WrittenRows :
        IsExact(row.daily_cost, row.purchase_amount * 100, DaysOf(row))

\* C7: after every successful create_item and every successful update_item,
\* whichever fields it carries, the stored daily_cost is the stored
\* purchase_amount divided by max(1, days from the stored purchase_date to
\* the day of the write), rounded to 4 decimal places.
C7_DailyCostIsRecomputedOnEveryWrite ==
    \A row \in WrittenRows :
        IsRounded(row.daily_cost, row.purchase_amount * 100, DaysOf(row))

\* On a later day than the one a row was written, a row bought 3 days ago
\* holds a daily cost that the division does not give exactly.
C7_Witness ==
    \E i \in DOMAIN items :
        /\ Today > StartDay
        /\ Today - items[i].purchase_date = 3
        /\ items[i].purchase_amount = 100
        /\ items[i].daily_cost = 3333

\* C8 as stated: calculate_daily_cost returns amount / max(1, days elapsed),
\* exactly.
C8_DailyCostIsAmountOverDays ==
    probe.returned =>
        IsExact(probe.result, probe.purchase_amount * 100,
                Max(1, probe.today - probe.purchase_date))

\* C8: calculate_daily_cost returns amount / max(1, days elapsed since
\* purchase_date) rounded to 4 decimal places: for a purchase of today, of
\* yesterday or of a future date it returns the amount itself, and for 1 or
\* more elapsed days the rounded quotient amount / days.
C8_DailyCostIsRoundedAmountOverDays ==
    probe.returned =>
        LET elapsed == probe.today - probe.purchase_date IN
        /\ elapsed <= 1 => probe.result = probe.purchase_amount * 100
        /\ elapsed >= 1 => IsRounded(probe.result, probe.purchase_amount * 100, elapsed)

\* The function has returned a quotient that had to be rounded.
C8_Witness ==
    /\ probe.returned
    /\ probe.today - probe.purchase_date >= 2
    /\ ~IsExact(probe.result, probe.purchase_amount * 100,
                probe.today - probe.purchase_date)

----------------------------------------------------------------------------
(* Validation: C9 *)

\* The requests the request models or the handlers reject leave the table as
\* it is.
RejectedRequestsChangeNothing ==
    \A A \in CurrentUsers :
       /\ \A name \in NameInputs, purchase_date \in DateInputs,
             purchase_amount \in AmountInputs :
             ~Succeeded(create_item_response(items, name, purchase_date,
                                             purchase_amount, A))
             => create_item_commit(items, name, purchase_date, purchase_amount, A)
                  = items
       /\ \A item_id \in ItemIdInputs, b \in UpdateInputs :
             ~Succeeded(update_item_response(items, item_id, b.name, b.purchase_date,
                                             b.purchase_amount, A))
             => update_item_commit(items, item_id, b.name, b.purchase_date,
                                   b.purchase_amount, A) = items

\* C9: no stored item has a purchase_amount of 0 or less or a purchase_date
\* after the day it was written, and a rejected request leaves the items
\* table unchanged.
C9_NoBadDataIsStored ==
    /\ \A i \in DOMAIN items :
          /\ items[i].purchase_amount > 0
          /\ items[i].purchase_date <= Today
    /\ RejectedRequestsChangeNothing

----------------------------------------------------------------------------
(* The token pair: C10 *)

\* C10: the token pair a login issues to a user is usable: verify_token
\* accepts the access token, which decodes to the user's id and type
\* "access", get_current_user returns the user for it, and the refresh
\* endpoint accepts the refresh token and answers with a new pair.
C10_IssuedPairIsUsable ==
    \A r \in CurrentUsers :
        LET pair == generate_token_pair(r.id, [openid |-> r.openid], now) IN
        /\ verify_token(pair.access_token) # None
        /\ NumberOf(verify_token(pair.access_token).sub) = r.id
        /\ verify_token(pair.access_token).type = "access"
        /\ get_current_user(pair.access_token) = [user |-> r]
        /\ refresh_token_response(pair.refresh_token).body.success

----------------------------------------------------------------------------
(* Token types: C11 *)

\* C11: access and refresh tokens are not interchangeable: for the pair a
\* login issues to a user, get_current_user answers the refresh token with
\* 401, and the refresh endpoint answers the access token with
\* WRONG_TOKEN_TYPE and issues nothing.
C11_TokenTypesAreNotInterchangeable ==
    \A r \in CurrentUsers :
        LET pair == generate_token_pair(r.id, [openid |-> r.openid], now) IN
        /\ ~Authenticated(get_current_user(pair.refresh_token))
        /\ get_current_user(pair.refresh_token).raised.http = 401
        /\ ~refresh_token_response(pair.access_token).body.success
        /\ refresh_token_response(pair.access_token).body.error_code
              = "WRONG_TOKEN_TYPE"

----------------------------------------------------------------------------
(* The provider token: C12 *)

\* C12: get_access_token returns the cached token without calling the
\* provider whenever the cache holds an entry; otherwise, when the provider
\* supplies a token, the TTL min(110, expires_in - 10) minutes is positive
\* and smaller than expires_in, the token is returned and cached with that
\* TTL; and no token is returned past its provider-issued expiry.
C12_ProviderTokenIsCachedAndRefreshed ==
    probe # None =>
        /\ probe.cached # None =>
              /\ ~probe.contacted
              /\ probe.result = probe.cached.access_token
        /\ (probe.cached = None /\ probe.response.kind = "token") =>
              LET expires_in == IF probe.response.expires_in = None
                                THEN DefaultExpiresIn
                                ELSE probe.response.expires_in.v
                  ttl == Min(access_token_expire_minutes,
                             expires_in - CacheBufferMinutes)
              IN /\ ttl > 0
                 /\ ttl < expires_in
                 /\ probe.contacted
                 /\ probe.result = [issued_at |-> probe.at, expires_in |-> expires_in]
                 /\ token_cache # None
                 /\ token_cache.value.access_token = probe.result
                 /\ token_cache.expire_at = probe.at + ttl
        /\ probe.result # None =>
              probe.at < probe.result.issued_at + probe.result.expires_in

----------------------------------------------------------------------------
(* The response envelope: C13, C14 *)

\* The four fields of the envelope.
EnvelopeFields == {"success", "message", "data", "code"}

IsEnvelope(body) ==
    /\ EnvelopeFields \subseteq DOMAIN body
    /\ body.success \in BOOLEAN

\* C13: every response body the application produces is a record with the
\* fields success, message, data and code, the bodies written by the
\* HTTPException handler for a request that fails authentication included.
C13_EveryBodyIsAnEnvelope ==
    \A credentials \in TokenInputs :
        /\ IsEnvelope(get_current_user_info_response(credentials).body)
        /\ IsEnvelope(logout_response(credentials).body)
        /\ IsEnvelope(refresh_token_response(credentials).body)


\* The error envelope the handler intended: a string error code, the status
\* in code, and no data.
IsErrorWith(body, error_code, code) ==
    /\ IsEnvelope(body)
    /\ "error_code" \in DOMAIN body
    /\ ~body.success
    /\ body.error_code = error_code
    /\ body.code = code
    /\ body.data = None

\* C14: error envelopes carry the status the handler intended.  get_item,
\* update_item and delete_item on a missing, foreign or soft-deleted item
\* answer ITEM_NOT_FOUND with code 404 and empty data, batch_delete_items
\* with no matching item answers with code 404, and a create_item or
\* update_item body that fails validation is answered VALIDATION_ERROR with
\* code 400.
C14_ErrorsCarryTheIntendedStatus ==
    \A current_user \in CurrentUsers :
       /\ \A i \in ItemIdInputs :
             SelectItem(items, i, current_user.id) = None =>
                /\ IsErrorWith(get_item_response(items, i, current_user).body,
                               "ITEM_NOT_FOUND", 404)
                /\ IsErrorWith(delete_item_response(items, i, current_user).body,
                               "ITEM_NOT_FOUND", 404)
                /\ \A b \in ValidUpdates :
                      IsErrorWith(update_item_response(items, i, b.name,
                                      b.purchase_date, b.purchase_amount,
                                      current_user).body,
                                  "ITEM_NOT_FOUND", 404)
       /\ \A item_ids \in (SUBSET ItemIdInputs) \ {{}} :
             batch_delete_selected(items, item_ids, current_user.id) = {} =>
                batch_delete_items_response(items, item_ids, current_user).body.code
                   = 404
       /\ \A name \in NameInputs, purchase_date \in DateInputs,
             purchase_amount \in AmountInputs :
             ItemCreate(name, purchase_date, purchase_amount) = None =>
                IsErrorWith(create_item_response(items, name, purchase_date,
                                purchase_amount, current_user).body,
                            "VALIDATION_ERROR", 400)
       /\ \A b \in UpdateInputs \ ValidUpdates :
             \A i \in ItemIdInputs :
                IsErrorWith(update_item_response(items, i, b.name, b.purchase_date,
                                b.purchase_amount, current_user).body,
                            "VALIDATION_ERROR", 400)

----------------------------------------------------------------------------
(* Failures: C15, C16 *)

\* C15: a request or network error of an outbound call made during
\* wechat_callback is answered with error_code WECHAT_REQUEST_ERROR.
C15_RequestErrorsAreSurfaced ==
    \A state \in UuidInputs :
        LET response == wechat_callback_response(
                            state, get_user_info_by_code([kind |-> "request_error"]))
        IN /\ ~response.body.success
           /\ response.body.error_code = "WECHAT_REQUEST_ERROR"


\* C16: an exception other than a validation or third-party request error
\* raised while a request is handled, such as a database failure inside an
\* item or statistics handler, is answered with success = false and code 500.
C16_OtherExceptionsAnswer500 ==
    probe # None =>
        /\ ~probe.response.body.success
        /\ probe.response.body.code = 500

----------------------------------------------------------------------------
(* Batch delete: C17 *)

\* C17: batch_delete_items with id list L soft-deletes exactly the rows
\* whose id is in L, that the caller owns and that are not deleted, leaves
\* every other row unchanged and reports deleted_count and item_ids of that
\* set; when the set is empty it answers NO_ITEMS_FOUND and changes nothing.
C17_BatchDeleteIsExact ==
    \A A \in CurrentUsers :
       \A L \in (SUBSET ItemIdInputs) \ {{}} :
          LET S == {i \in DOMAIN items : /\ i \in L
                                         /\ items[i].user_id = A.id
                                         /\ ~items[i].is_delete}
              after == batch_delete_items_commit(items, L, A)
              r == batch_delete_items_response(items, L, A).body
          IN /\ DOMAIN after = DOMAIN items
             /\ \A i \in DOMAIN items :
                   after[i] = IF i \in S THEN [items[i] EXCEPT !.is_delete = TRUE]
                              ELSE items[i]
             /\ S # {} => /\ r.success
                          /\ r.data.deleted_count = Cardinality(S)
                          /\ r.data.item_ids = S
             /\ S = {} => /\ ~r.success
                          /\ r.error_code = "NO_ITEMS_FOUND"
                          /\ after = items

\* A caller owns a live row next to a deleted row of another user: a list
\* naming both selects one of them.
C17_Witness ==
    \E i, j \in DOMAIN items :
       /\ items[i].is_delete
       /\ ~items[j].is_delete
       /\ items[i].user_id # items[j].user_id
       /\ \E A \in CurrentUsers : A.id = items[j].user_id

----------------------------------------------------------------------------
(* Overview statistics: C18 *)

\* C18: get_overview_stats succeeds for a user with any number of live
\* items and returns total_items = their number and total_cost = the sum of
\* their purchase amounts, with the three featured items null when there is
\* no item and present otherwise.
C18_OverviewSucceedsForAnyNumberOfItems ==
    \A current_user \in CurrentUsers :
        LET S == overview_conditions(items, current_user.id)
            r == get_overview_stats_response(items, current_user)
        IN /\ r.success
           /\ r.data.total_items = Cardinality(S)
           /\ r.data.total_cost = SumOver(items, S, "purchase_amount")
           /\ (S = {}) <=> (r.data.most_expensive_item = None)
           /\ (S = {}) <=> (r.data.latest_item = None)
           /\ (S = {}) <=> (r.data.longest_used_item = None)

----------------------------------------------------------------------------
(* One user per openid: C19 *)

OneRowPerOpenid ==
    \A u, v \in DOMAIN users : users[u].openid = users[v].openid => u = v

ExistingUserIsReused ==
    \A r \in Requests :
        (probe[r].pc = "done" /\ probe[r].user # None) =>
            /\ probe[r].response.body.success
            /\ probe[r].login = probe[r].user

NoRowForAnExistingUser ==
    \A r \in Requests :
        (probe[r].pc = "selected" /\ probe[r].user # None) =>
            (probe'[r].pc = "done" => users' = users)

\* C19: after any interleaving of wechat_callback requests the users table
\* holds at most one row per openid; a callback whose openid belongs to a
\* non-deleted user logs that user in and creates no row; two concurrent
\* first-time callbacks for one openid do not produce two users.
C19_OneUserPerOpenid ==
    /\ [](OneRowPerOpenid /\ ExistingUserIsReused)
    /\ [][NoRowForAnExistingUser]_vars

\* Two requests for one openid both found no user; one created the row and
\* the other was refused by the unique index.
C19_Witness ==
    \E r1, r2 \in Requests :
        /\ r1 # r2
        /\ probe[r1].pc = "done" /\ probe[r2].pc = "done"
        /\ probe[r1].user_data # None
        /\ probe[r1].user_data = probe[r2].user_data
        /\ probe[r1].user = None /\ probe[r2].user = None
        /\ probe[r1].response.body.success
        /\ probe[r1].login \in CurrentUsers
        /\ ~probe[r2].response.body.success

----------------------------------------------------------------------------
(* Soft delete: C20 *)

\* No step removes a row or clears is_delete.
RowsStayAndStayDeleted ==
    /\ DOMAIN items \subseteq DOMAIN items'
    /\ \A i \in DOMAIN items : items[i].is_delete => items'[i].is_delete

\* delete_item and batch_delete_items change nothing but is_delete, which
\* they set; on a deleted row delete_item answers ITEM_NOT_FOUND and
\* changes nothing.
DeletesOnlySetTheFlag ==
    \A current_user \in CurrentUsers :
       /\ \A i \in ItemIdInputs :
             LET after == delete_item_commit(items, i, current_user) IN
             /\ DOMAIN after = DOMAIN items
             /\ \A k \in DOMAIN items :
                   after[k] \in {items[k], [items[k] EXCEPT !.is_delete = TRUE]}
             /\ (i \in DOMAIN items /\ items[i].is_delete) =>
                   /\ after = items
                   /\ ~delete_item_response(items, i, current_user).body.success
                   /\ delete_item_response(items, i, current_user).body.error_code
                         = "ITEM_NOT_FOUND"
       /\ \A item_ids \in (SUBSET ItemIdInputs) \ {{}} :
             LET after == batch_delete_items_commit(items, item_ids, current_user) IN
             /\ DOMAIN after = DOMAIN items
             /\ \A k \in DOMAIN items :
                   after[k] \in {items[k], [items[k] EXCEPT !.is_delete = TRUE]}

\* C20: deletion is soft and monotonic.  delete_item and
\* batch_delete_items only set is_delete; no operation removes an item row
\* or resets is_delete, so the set of rows never shrinks and a deleted item
\* stays deleted; deleting a deleted item is answered ITEM_NOT_FOUND and
\* changes nothing.
C20_DeletionIsSoftAndMonotonic ==
    /\ []DeletesOnlySetTheFlag
    /\ [][RowsStayAndStayDeleted]_vars

\* A row is deleted and the table has since been filled: creates, updates
\* and deletes have run next to the deleted row.
C20_Witness ==
    /\ Len(items) = MaxItems
    /\ items[1].is_delete
    /\ ~items[MaxItems].is_delete
    /\ items[1].user_id = items[MaxItems].user_id

----------------------------------------------------------------------------
(* Routing: C21 *)

\* C21: a DELETE request to /api/items/batch is dispatched to
\* batch_delete_items and not to delete_item's /{item_id} route.
C21_BatchDeleteIsReachable ==
    (probe # None /\ probe.method = "DELETE" /\ probe.path = "/batch") =>
        probe.endpoint = "batch_delete_items"

----------------------------------------------------------------------------
(* Cost trends: C22 *)

\* The index of a (year, month) pair, 2023-01 being 1, as MonthOf counts.
MonthIndex(ym) == (ym.year - 2023) * 12 + ym.month

\* C22: get_cost_trends(months = n) returns n entries covering n distinct
\* consecutive calendar months that end with the current month, oldest
\* first, and each cumulative_cost is the running sum of total_spent.
C22_TrendsCoverConsecutiveMonths ==
    \A current_user \in CurrentUsers, months \in MonthsInputs :
        LET r == get_cost_trends_response(items, months, current_user)
            stats == r.data.monthly_stats
        IN /\ r.success
           /\ DOMAIN stats = 1 .. months
           /\ \A k \in 1 .. months :
                 /\ MonthIndex(stats[k].month) = MonthOf(Today) - (months - k)
                 /\ stats[k].cumulative_cost = Cumulative(stats, k)

----------------------------------------------------------------------------
(* Session updates under interleaving: C23 *)

\* A call for an absent key returns False and writes nothing.
AbsentKeyIsNotWritten ==
    \A r \in Requests :
        (probe'[r] # probe[r] /\ probe'[r] = [pc |-> "idle", result |-> FALSE]) =>
            redis' = redis

\* A SETEX for a key whose TTL has run out since the GET does not make the
\* key live again.
ExpiredStaysExpired ==
    \A r \in Requests :
        (probe[r].pc = "read" /\ probe'[r].pc = "idle"
            /\ RedisGet(probe[r].session_id) = None) =>
           ~(/\ probe[r].session_id \in DOMAIN redis'
             /\ now' < redis'[probe[r].session_id].expire_at)

\* The SETEX of a call keeps every field it was not given as the cache holds
\* it at the time of the write.
NoFieldIsLost ==
    \A r \in Requests :
        (probe[r].pc = "read" /\ probe'[r].pc = "idle"
            /\ RedisGet(probe[r].session_id) # None
            /\ probe[r].call.kwargs = None) =>
           LET before == RedisGet(probe[r].session_id)
               after == redis'[probe[r].session_id].value
           IN after.user_info = before.user_info /\ after.token = before.token

\* C23: update_session_status called for an absent key returns False and
\* writes nothing, and under every interleaving of its GET and SETEX with
\* TTL expiry or another update an expired session is never re-created and
\* no field written by a concurrent update is lost.
C23_UpdateIsSafeUnderInterleaving ==
    [][AbsentKeyIsNotWritten /\ ExpiredStaysExpired /\ NoFieldIsLost]_vars

----------------------------------------------------------------------------
(* The callback and the session store: C24, C25 *)

FailedLoginIsAnswered ==
    \A r \in Requests :
        (probe[r].pc = "done" /\ probe[r].user_data = None) =>
            /\ ~probe[r].response.body.success
            /\ probe[r].response.body.error_code = "WECHAT_AUTH_ERROR"
            /\ probe[r].response.body.data = None
            /\ probe[r].login = None

\* The step of a request whose authorization fails changes neither the
\* users table nor any stored session.
FailedLoginChangesNothing ==
    \A r \in Requests :
        (probe[r].pc = "idle" /\ probe'[r].pc = "done") =>
            (users' = users /\ redis' = redis)

\* C25: when get_user_info_by_code returns None, wechat_callback answers
\* WECHAT_AUTH_ERROR, issues no token, creates no user row and leaves every
\* login session as it is.
C25_FailedLoginChangesNothing ==
    /\ []FailedLoginIsAnswered
    /\ [][FailedLoginChangesNothing]_vars

\* A callback has failed while a pending login session was waiting.
C25_Witness ==
    /\ \E r \in Requests : probe[r].pc = "done" /\ probe[r].user_data = None
    /\ \E k \in DOMAIN redis : redis[k].value.status = "pending"

----------------------------------------------------------------------------
(* Logout and refresh: C26, C27 *)

PresentedTokens ==
    TokenInputs
    \cup {jwt_encode([sub |-> StrVal(u), exp |-> REFRESH_TOKEN_EXPIRE_MINUTES,
                      type |-> t], "SECRET_KEY") :
             u \in 1 .. 4, t \in {"refresh", "access"}}
    \cup {jwt_encode([exp |-> REFRESH_TOKEN_EXPIRE_MINUTES, type |-> "refresh"],
                     "SECRET_KEY")}

----------------------------------------------------------------------------
(* Pagination: C28 *)

\* The pages and sizes asked for: one more than the table can fill.
PageInputs == 1 .. (MaxItems + 1)

\* The queries of QueryInputs whose dates parse.
ListQueries ==
    {q \in QueryInputs :
        /\ q.start_date # None => parse_date(q.start_date.v) # None
        /\ q.end_date # None => parse_date(q.end_date.v) # None}

\* The least n with n * s >= T.
Ceiling(T, s) == CHOOSE n \in 0 .. T : n * s >= T /\ (n = 0 \/ (n - 1) * s < T)

\* C28: for T matching items and page size s, get_items reports pages =
\* ceil(T / s) and total = T on every page, page p holds the
\* min(s, max(0, T - (p - 1) s)) items at offsets (p - 1) s .. p s - 1 of the
\* sorted match list, and a page past the last is empty with success.
C28_PaginationIsConsistent ==
    \A current_user \in CurrentUsers, q \in ListQueries :
        LET start_date_obj == IF q.start_date = None THEN None
                              ELSE parse_date(q.start_date.v)
            end_date_obj == IF q.end_date = None THEN None
                            ELSE parse_date(q.end_date.v)
            matching == get_items_conditions(items, q.search, start_date_obj,
                                             end_date_obj, current_user.id)
            sorted == OrderBy(items, matching, OrderColumn(q.sort_by),
                              q.sort_order # "asc")
            T == Cardinality(matching)
        IN \A p \in PageInputs, s \in PageInputs :
              LET body == get_items_response(items, p, s, q.search, q.start_date,
                              q.end_date, q.sort_by, q.sort_order,
                              current_user).body
                  n == Min(s, Max(0, T - (p - 1) * s))
              IN /\ body.success
                 /\ body.data.pages = Ceiling(T, s)
                 /\ body.data.total = T
                 /\ Len(body.data.items) = n
                 /\ \A k \in 1 .. n :
                       body.data.items[k].id = sorted[(p - 1) * s + k]
                 /\ p > body.data.pages => body.data.items = << >>

\* A user has as many live items as the table holds: a second page of size
\* one is filled and a page past the last exists.
C28_Witness ==
    \E current_user \in CurrentUsers :
        Cardinality(get_items_conditions(items, None, None, None, current_user.id))
            = MaxItems

----------------------------------------------------------------------------
(* The dashboard: C29 *)

\* C29: get_dashboard_stats succeeds only if get_overview_stats,
\* get_cost_trends(6) and get_monthly_stats for the current month all
\* succeed; otherwise it returns the first failing answer unchanged; on
\* success it embeds the three results and its quick_stats are the
\* corresponding values of the overview and the current month.
C29_DashboardCombinesItsParts ==
    \A current_user \in CurrentUsers :
        LET overview == get_overview_stats_response(items, current_user)
            trends == get_cost_trends_response(items, 6, current_user)
            monthly == get_monthly_stats_response(items, None, None, current_user)
            dashboard == get_dashboard_stats_response(items, current_user)
        IN /\ dashboard.success
                 <=> (overview.success /\ trends.success /\ monthly.success)
           /\ ~overview.success => dashboard = overview
           /\ (overview.success /\ ~trends.success) => dashboard = trends
           /\ (overview.success /\ trends.success /\ ~monthly.success)
                 => dashboard = monthly
           /\ dashboard.success =>
                 /\ dashboard.data.overview = overview.data
                 /\ dashboard.data.trends = trends.data
                 /\ dashboard.data.current_month = monthly.data
                 /\ dashboard.data.quick_stats.items_this_month
                       = monthly.data.total_items
                 /\ dashboard.data.quick_stats.spent_this_month
                       = monthly.data.total_cost
                 /\ dashboard.data.quick_stats.total_items
                       = overview.data.total_items
                 /\ dashboard.data.quick_stats.total_cost
                       = overview.data.total_cost

\* One user's dashboard is answered with a failing part while another
\* user's succeeds.
C29_Witness ==
    /\ \E current_user \in CurrentUsers :
          ~get_dashboard_stats_response(items, current_user).success
    /\ \E current_user \in CurrentUsers :
          get_dashboard_stats_response(items, current_user).success

====
